---- MODULE Spec2Model ----
(***************************************************************************)
(* Model of mackerel-plugin-aws-lambda (package mpawslambda): one          *)
(* collection cycle of LambdaPlugin.FetchMetrics, the CloudWatch query of  *)
(* getLastPointFromCloudWatch with its latest-datapoint scan, the merge of *)
(* a datapoint into the stat map and TransformMetrics.                     *)
(*                                                                         *)
(* Encoding.  A Go map[string]interface{} holding float64 values is a      *)
(* function whose DOMAIN is the set of keys present.  A *float64 field of  *)
(* cloudwatch.Datapoint is an integer, NilF standing for the nil pointer.  *)
(* A *cloudwatch.Datapoint is a sequence of length 0 (nil) or 1.  An error *)
(* is the text of err.Error(), NoErr standing for the nil error.  A        *)
(* time.Time is a number of seconds since the zero time.                   *)
(***************************************************************************)
EXTENDS Integers, Sequences, FiniteSets, TLC

VARIABLES
    pc,             \* position of the modelled call
    functionName,   \* LambdaPlugin.FunctionName
    clock,          \* what time.Now() returns next
    idx,            \* index of the metricsGroup the range loop is at
    stat,           \* the stat map of FetchMetrics / the map under test
    v,              \* datapoint returned by getLastPointFromCloudWatch
    err,            \* error returned by getLastPointFromCloudWatch
    RequestedCount, \* number of GetMetricStatistics requests received
    lastRequest,    \* the last GetMetricStatisticsInput received
    logs,           \* lines written by log.Printf: <<group name, error>>
    ret,            \* map returned by FetchMetrics / TransformMetrics
    retErr,         \* error returned by FetchMetrics
    datapoints,     \* response.Datapoints of the observed single call
    cause,          \* error GetMetricStatistics answered in that call
    latestIdx,      \* position in datapoints that latestDp points at
    arg,            \* the map handed to the function under test
    outcomes,       \* what the fetch of each group returns, by catalog position
    order           \* the order in which the groups are taken

vars == <<pc, functionName, clock, idx, stat, v, err, RequestedCount,
          lastRequest, logs, ret, retErr, datapoints, cause, latestIdx, arg,
          outcomes, order>>

----------------------------------------------------------------------------
(* Bounds *)

MaxVal == 2        \* statistic values are 1..MaxVal
MaxDps == 1        \* datapoints per response inside a collection cycle
MaxCand == 3       \* datapoints per response in the single-call model
MaxTick == 1       \* seconds the clock may advance during a cycle
BaseNow == 1000    \* time.Now() at the start

Values == 1..MaxVal

----------------------------------------------------------------------------
(* Constants of the program *)

namespace == "AWS/Lambda"
metricsTypeAverage == "Average"
metricsTypeSum == "Sum"
metricsTypeMaximum == "Maximum"
metricsTypeMinimum == "Minimum"

TotalKey == "TEMPORARY_invocations_total"
ErrorKey == "invocations_error"
SuccessKey == "invocations_success"

WindowSeconds == 180
PeriodSeconds == 600
StepSeconds == 60

ZeroTime == 0
NilF == 0 - 1
NoErr == "nil"
NoDataError == "fetched no datapoints"
UpstreamErrors == {"Unexpected Dimension", "Wrong Statistics"}
FunctionNames == {"", "myFunction"}

\* A variant of the catalog in which Throttles is written under the output
\* name of Errors.
MetricCatalogSharedName ==
    << [CloudWatchName |-> "Invocations", Metrics |->
           << [MackerelName |-> TotalKey, Type |-> metricsTypeSum] >>],
       [CloudWatchName |-> "Errors", Metrics |->
           << [MackerelName |-> ErrorKey, Type |-> metricsTypeSum] >>],
       [CloudWatchName |-> "Throttles", Metrics |->
           << [MackerelName |-> ErrorKey, Type |-> metricsTypeSum] >>],
       [CloudWatchName |-> "Duration", Metrics |->
           << [MackerelName |-> "duration_avg", Type |-> metricsTypeAverage],
              [MackerelName |-> "duration_max", Type |-> metricsTypeMaximum],
              [MackerelName |-> "duration_min", Type |-> metricsTypeMinimum] >>] >>

\* The metricsGroup literal FetchMetrics ranges over.
MetricCatalog ==
    << [CloudWatchName |-> "Invocations", Metrics |->
           << [MackerelName |-> TotalKey, Type |-> metricsTypeSum] >>],
       [CloudWatchName |-> "Errors", Metrics |->
           << [MackerelName |-> ErrorKey, Type |-> metricsTypeSum] >>],
       [CloudWatchName |-> "Throttles", Metrics |->
           << [MackerelName |-> "invocations_throttles", Type |-> metricsTypeSum] >>],
       [CloudWatchName |-> "Duration", Metrics |->
           << [MackerelName |-> "duration_avg", Type |-> metricsTypeAverage],
              [MackerelName |-> "duration_max", Type |-> metricsTypeMaximum],
              [MackerelName |-> "duration_min", Type |-> metricsTypeMinimum] >>] >>

GraphDefinition ==
    [invocations |-> <<"invocations_success", "invocations_error", "invocations_throttles">>,
     duration |-> <<"duration_avg", "duration_max", "duration_min">>]

----------------------------------------------------------------------------
(* Maps *)

EmptyMap == [k \in {} |-> 0]
Has(m, k) == k \in DOMAIN m
Put(m, k, x) == [j \in DOMAIN m \cup {k} |-> IF j = k THEN x ELSE m[j]]
Delete(m, k) == [j \in DOMAIN m \ {k} |-> m[j]]

----------------------------------------------------------------------------
(* getLastPointFromCloudWatch *)

\* A variant of statsInput that names the first metric's Type only.
statsInputFirstOnly(metric) == << metric.Metrics[1].Type >>

\* statsInput: the Type of every metric of the group, in order.
statsInput(metric) == [i \in 1..Len(metric.Metrics) |-> metric.Metrics[i].Type]

\* A variant of the request that asks for every statistic.
GetMetricStatisticsInputAllStatistics(name, metric, now) ==
    [Dimensions |-> << [Name |-> "FunctionName", Value |-> name] >>,
     StartTime  |-> now - WindowSeconds,
     EndTime    |-> now,
     MetricName |-> metric.CloudWatchName,
     Period     |-> PeriodSeconds,
     Statistics |-> <<metricsTypeAverage, metricsTypeSum, metricsTypeMaximum,
                      metricsTypeMinimum>>,
     Namespace  |-> namespace]

\* The GetMetricStatisticsInput the function builds.
GetMetricStatisticsInput(name, metric, now) ==
    [Dimensions |-> << [Name |-> "FunctionName", Value |-> name] >>,
     StartTime  |-> now - WindowSeconds,
     EndTime    |-> now,
     MetricName |-> metric.CloudWatchName,
     Period     |-> PeriodSeconds,
     Statistics |-> statsInput(metric),
     Namespace  |-> namespace]

\* A variant of the sentinel: the scan starts from a time after every
\* candidate instead of the zero time.
LatestFromFuture == BaseNow + MaxTick + StepSeconds + 1

\* latest := new(time.Time): the zero time.
initialLatest == ZeroTime

\* time.Time.Before
Before(t, u) == t < u

\* A statistic of a datapoint the remote store answers: populated when the
\* request names it, nil otherwise.
StatisticValues(req, typ) ==
    IF \E i \in 1..Len(req.Statistics) : req.Statistics[i] = typ
    THEN Values ELSE {NilF}

\* The statistics of one datapoint are taken over the same samples: the
\* minimum is at most the average and the average at most the maximum.
Ordered(x, y) == x = NilF \/ y = NilF \/ x <= y

\* The datapoints the remote store may answer a request with.
Datapoints(req) ==
    {d \in [Timestamp : {req.EndTime - StepSeconds, req.EndTime, req.EndTime + StepSeconds},
            Average   : StatisticValues(req, metricsTypeAverage),
            Sum       : StatisticValues(req, metricsTypeSum),
            Maximum   : StatisticValues(req, metricsTypeMaximum),
            Minimum   : StatisticValues(req, metricsTypeMinimum)] :
        /\ Ordered(d.Minimum, d.Average)
        /\ Ordered(d.Average, d.Maximum)
        /\ Ordered(d.Minimum, d.Maximum)}

SeqsUpTo(S, n) == UNION {[1..k -> S] : k \in 0..n}

\* What GetMetricStatistics may return: an error, or at most n datapoints.
GetMetricStatistics(req, n) ==
    {[err |-> e, Datapoints |-> <<>>] : e \in UpstreamErrors}
    \cup {[err |-> NoErr, Datapoints |-> d] : d \in SeqsUpTo(Datapoints(req), n)}

\* A variant of the scan's test that also passes over a candidate as late as
\* the best so far.
skipCandidateOnTie(timestamp, latest) == ~Before(latest, timestamp)

\* The test of the scan: a candidate strictly earlier than the best so far
\* is passed over.
skipCandidate(timestamp, latest) == Before(timestamp, latest)

\* The range loop over datapoints from position k on; the result is the
\* position latestDp points at, 0 for nil.
RECURSIVE scanDatapoints(_, _, _, _)
scanDatapoints(dps, k, latest, latestDp) ==
    IF k > Len(dps) THEN latestDp
    ELSE IF skipCandidate(dps[k].Timestamp, latest)
         THEN scanDatapoints(dps, k + 1, latest, latestDp)
         ELSE scanDatapoints(dps, k + 1, dps[k].Timestamp, k)

\* A variant that reports an empty answer as no error.
returnOfResponseNoDataOk(response) ==
    IF response.err # NoErr
    THEN [v |-> <<>>, err |-> response.err, latestDp |-> 0]
    ELSE LET k == scanDatapoints(response.Datapoints, 1, initialLatest, 0)
         IN [v |-> IF k = 0 THEN <<>> ELSE <<response.Datapoints[k]>>,
             err |-> NoErr, latestDp |-> k]

\* What getLastPointFromCloudWatch returns for a response of the store.
returnOfResponse(response) ==
    IF response.err # NoErr
    THEN [v |-> <<>>, err |-> response.err, latestDp |-> 0]
    ELSE IF Len(response.Datapoints) = 0
    THEN [v |-> <<>>, err |-> NoDataError, latestDp |-> 0]
    ELSE LET k == scanDatapoints(response.Datapoints, 1, initialLatest, 0)
         IN [v |-> IF k = 0 THEN <<>> ELSE <<response.Datapoints[k]>>,
             err |-> NoErr, latestDp |-> k]

----------------------------------------------------------------------------
(* The merge of FetchMetrics *)

\* The field of the datapoint a metric Type reads.
fieldOfType(dp, typ) ==
    CASE typ = metricsTypeAverage -> dp.Average
      [] typ = metricsTypeSum     -> dp.Sum
      [] typ = metricsTypeMaximum -> dp.Maximum
      [] typ = metricsTypeMinimum -> dp.Minimum

KnownType(typ) ==
    typ \in {metricsTypeAverage, metricsTypeSum, metricsTypeMaximum, metricsTypeMinimum}

\* The merge dereferences a nil pointer: the datapoint itself, or the field
\* a metric of the group reads.
mergePanics(dp, met) ==
    \/ dp = <<>>
    \/ \E i \in 1..Len(met.Metrics) :
          /\ KnownType(met.Metrics[i].Type)
          /\ fieldOfType(dp[1], met.Metrics[i].Type) = NilF

\* A variant of the write that adds to the value already in the map.
writeStatAccumulate(m, name, x) == Put(m, name, IF Has(m, name) THEN m[name] + x ELSE x)

\* stat[typ.MackerelName] = value
writeStat(m, name, x) == Put(m, name, x)

\* The range loop over met.Metrics from position i on.
RECURSIVE mergeFrom(_, _, _, _)
mergeFrom(m, dp, met, i) ==
    IF i > Len(met.Metrics) THEN m
    ELSE LET typ == met.Metrics[i]
         IN mergeFrom(IF KnownType(typ.Type)
                      THEN writeStat(m, typ.MackerelName, fieldOfType(dp, typ.Type))
                      ELSE m,
                      dp, met, i + 1)

mergeStatsFromDatapoint(m, dp, met) == mergeFrom(m, dp, met, 1)

----------------------------------------------------------------------------
(* TransformMetrics *)

\* A variant that drops the total key only when the error count is there.
TransformMetricsKeepTotal(stats) ==
    IF Has(stats, TotalKey)
    THEN IF Has(stats, ErrorKey)
         THEN Delete(Put(stats, SuccessKey, stats[TotalKey] - stats[ErrorKey]), TotalKey)
         ELSE Put(stats, SuccessKey, stats[TotalKey])
    ELSE stats

\* A variant that ignores the error count.
TransformMetricsNoError(stats) ==
    IF Has(stats, TotalKey)
    THEN Delete(Put(stats, SuccessKey, stats[TotalKey]), TotalKey)
    ELSE stats

\* A variant that consumes the error count together with the total.
TransformMetricsDropError(stats) ==
    IF Has(stats, TotalKey)
    THEN Delete(Delete(Put(stats, SuccessKey,
                           IF Has(stats, ErrorKey)
                           THEN stats[TotalKey] - stats[ErrorKey]
                           ELSE stats[TotalKey]),
                       TotalKey), ErrorKey)
    ELSE stats

\* if totalCount, ok := stats[TotalKey].(float64); ok { ... }; return stats
TransformMetrics(stats) ==
    IF Has(stats, TotalKey)
    THEN Delete(Put(stats, SuccessKey,
                    IF Has(stats, ErrorKey)
                    THEN stats[TotalKey] - stats[ErrorKey]
                    ELSE stats[TotalKey]),
                TotalKey)
    ELSE stats

----------------------------------------------------------------------------
(* One collection cycle: LambdaPlugin.FetchMetrics *)

Init ==
    /\ pc = "loop"
    /\ functionName \in FunctionNames
    /\ clock = BaseNow
    /\ idx = 1
    /\ stat = EmptyMap
    /\ v = <<>>
    /\ err = NoErr
    /\ RequestedCount = 0
    /\ lastRequest = <<>>
    /\ logs = <<>>
    /\ ret = EmptyMap
    /\ retErr = NoErr
    /\ datapoints = <<>>
    /\ cause = NoErr
    /\ latestIdx = 0
    /\ arg = EmptyMap
    /\ outcomes = <<>>
    /\ order = <<>>

\* A variant of the call that asks the store again after a failed request.
roundTripsRetry(response) == IF response.err # NoErr THEN 2 ELSE 1

\* Requests one call of getLastPointFromCloudWatch sends for a response:
\* GetMetricStatistics is called once, outside any loop.
roundTrips(response) == 1

\* The clock reads at least what it read before.
ClockAfter(now) == {t \in now..(now + 1) : t <= BaseNow + MaxTick}

\* v, err := getLastPointFromCloudWatch(p.CloudWatch, p.FunctionName, met)
CallGetLastPoint ==
    /\ pc = "loop"
    /\ idx <= Len(MetricCatalog)
    /\ LET req == GetMetricStatisticsInput(functionName, MetricCatalog[idx], clock)
       IN \E response \in GetMetricStatistics(req, MaxDps) :
             LET r == returnOfResponse(response)
             IN /\ v' = r.v
                /\ err' = r.err
                /\ RequestedCount' = RequestedCount + roundTrips(response)
                /\ lastRequest' = <<req>>
    /\ clock' \in ClockAfter(clock)
    /\ pc' = "fetched"
    /\ UNCHANGED <<functionName, idx, stat, logs, ret, retErr, datapoints,
                   cause, latestIdx, arg,
                   outcomes, order>>

\* err == nil: the metrics of the group are copied into stat.  A nil
\* dereference ends the program.
MergeStats ==
    /\ pc = "fetched"
    /\ err = NoErr
    /\ IF mergePanics(v, MetricCatalog[idx])
       THEN pc' = "panic" /\ UNCHANGED <<stat, idx>>
       ELSE /\ stat' = mergeStatsFromDatapoint(stat, v[1], MetricCatalog[idx])
            /\ idx' = idx + 1
            /\ pc' = "loop"
    /\ UNCHANGED <<functionName, clock, v, err, RequestedCount, lastRequest,
                   logs, ret, retErr, datapoints, cause, latestIdx, arg,
                   outcomes, order>>

\* A variant of the error branch that gives up the cycle.
LogErrorAbort ==
    /\ pc = "fetched"
    /\ err # NoErr
    /\ logs' = Append(logs, <<MetricCatalog[idx].CloudWatchName, err>>)
    /\ retErr' = err
    /\ pc' = "done"
    /\ UNCHANGED <<functionName, clock, idx, stat, v, err, RequestedCount,
                   lastRequest, ret, datapoints, cause, latestIdx, arg,
                   outcomes, order>>

\* err != nil: log.Printf and on to the next group.
LogError ==
    /\ pc = "fetched"
    /\ err # NoErr
    /\ logs' = Append(logs, <<MetricCatalog[idx].CloudWatchName, err>>)
    /\ idx' = idx + 1
    /\ pc' = "loop"
    /\ UNCHANGED <<functionName, clock, stat, v, err, RequestedCount,
                   lastRequest, ret, retErr, datapoints, cause, latestIdx, arg,
                   outcomes, order>>

\* A variant of the return that hands out stat as it is.
ReturnMetricsRaw ==
    /\ pc = "loop"
    /\ idx > Len(MetricCatalog)
    /\ ret' = stat
    /\ retErr' = NoErr
    /\ pc' = "done"
    /\ UNCHANGED <<functionName, clock, idx, stat, v, err, RequestedCount,
                   lastRequest, logs, datapoints, cause, latestIdx, arg,
                   outcomes, order>>

\* return p.TransformMetrics(stat), nil
ReturnMetrics ==
    /\ pc = "loop"
    /\ idx > Len(MetricCatalog)
    /\ ret' = TransformMetrics(stat)
    /\ stat' = ret'
    /\ retErr' = NoErr
    /\ pc' = "done"
    /\ UNCHANGED <<functionName, clock, idx, v, err, RequestedCount,
                   lastRequest, logs, datapoints, cause, latestIdx, arg,
                   outcomes, order>>

Next == CallGetLastPoint \/ MergeStats \/ LogError \/ ReturnMetrics

Spec == Init /\ [][Next]_vars

----------------------------------------------------------------------------
(* One observed call of getLastPointFromCloudWatch *)

InitFetch ==
    /\ pc = "call"
    /\ functionName \in FunctionNames
    /\ clock = BaseNow
    /\ idx \in 1..Len(MetricCatalog)
    /\ stat = EmptyMap
    /\ v = <<>>
    /\ err = NoErr
    /\ RequestedCount = 0
    /\ lastRequest = <<>>
    /\ logs = <<>>
    /\ ret = EmptyMap
    /\ retErr = NoErr
    /\ datapoints = <<>>
    /\ cause = NoErr
    /\ latestIdx = 0
    /\ arg = EmptyMap
    /\ outcomes = <<>>
    /\ order = <<>>

\* The call, with the response of the store and the position of the
\* returned datapoint kept for inspection.
FetchOnce ==
    /\ pc = "call"
    /\ LET req == GetMetricStatisticsInput(functionName, MetricCatalog[idx], clock)
       IN \E response \in GetMetricStatistics(req, MaxCand) :
             LET r == returnOfResponse(response)
             IN /\ v' = r.v
                /\ err' = r.err
                /\ latestIdx' = r.latestDp
                /\ datapoints' = response.Datapoints
                /\ cause' = response.err
                /\ RequestedCount' = RequestedCount + roundTrips(response)
                /\ lastRequest' = <<req>>
    /\ pc' = "returned"
    /\ UNCHANGED <<functionName, clock, idx, stat, logs, ret, retErr, arg,
                   outcomes, order>>

NextFetch == FetchOnce

SpecFetch == InitFetch /\ [][NextFetch]_vars

----------------------------------------------------------------------------
(* The merge and TransformMetrics applied to any stat map *)

StatKeys ==
    {TotalKey, ErrorKey, SuccessKey, "invocations_throttles",
     "duration_avg", "duration_max", "duration_min"}

StatMaps == UNION {[K -> Values] : K \in SUBSET StatKeys}

InitRecord ==
    /\ pc = "input"
    /\ stat \in StatMaps
    /\ arg = stat
    /\ functionName = "myFunction"
    /\ clock = BaseNow
    /\ idx = 0
    /\ v = <<>>
    /\ err = NoErr
    /\ RequestedCount = 0
    /\ lastRequest = <<>>
    /\ logs = <<>>
    /\ ret = EmptyMap
    /\ retErr = NoErr
    /\ datapoints = <<>>
    /\ cause = NoErr
    /\ latestIdx = 0
    /\ outcomes = <<>>
    /\ order = <<>>

\* The merge of a datapoint of some group into the map.
MergeInto ==
    /\ pc = "input"
    /\ \E g \in 1..Len(MetricCatalog) :
         \E dp \in Datapoints(GetMetricStatisticsInput(functionName, MetricCatalog[g], clock)) :
            /\ idx' = g
            /\ v' = <<dp>>
            /\ stat' = mergeStatsFromDatapoint(stat, dp, MetricCatalog[g])
    /\ pc' = "merged"
    /\ UNCHANGED <<functionName, clock, err, RequestedCount, lastRequest, logs,
                   ret, retErr, datapoints, cause, latestIdx, arg,
                   outcomes, order>>

\* The same group and datapoint merged once more; ret keeps the map as it
\* was after the first merge.
MergeAgain ==
    /\ pc = "merged"
    /\ ret' = stat
    /\ stat' = mergeStatsFromDatapoint(stat, v[1], MetricCatalog[idx])
    /\ pc' = "mergedTwice"
    /\ UNCHANGED <<functionName, clock, idx, v, err, RequestedCount,
                   lastRequest, logs, retErr, datapoints, cause, latestIdx, arg,
                   outcomes, order>>

\* TransformMetrics(stats): the map is changed in place and returned.
ApplyTransform ==
    /\ pc = "input"
    /\ ret' = TransformMetrics(stat)
    /\ stat' = ret'
    /\ pc' = "transformed"
    /\ UNCHANGED <<functionName, clock, idx, v, err, RequestedCount,
                   lastRequest, logs, retErr, datapoints, cause, latestIdx, arg,
                   outcomes, order>>

NextRecord == MergeInto \/ MergeAgain \/ ApplyTransform

SpecRecord == InitRecord /\ [][NextRecord]_vars

----------------------------------------------------------------------------
(* The loop of FetchMetrics with the groups taken in any order *)

\* What getLastPointFromCloudWatch may return for the group at position g:
\* an error and no datapoint, or a datapoint and no error.
FetchOutcomes(g) ==
    LET req == GetMetricStatisticsInput("myFunction", MetricCatalog[g], BaseNow)
    IN {[v |-> <<>>, err |-> e] : e \in UpstreamErrors \cup {NoDataError}}
       \cup {[v |-> <<d>>, err |-> NoErr] :
                d \in {x \in Datapoints(req) : x.Timestamp = req.EndTime}}

Orders ==
    {q \in [1..Len(MetricCatalog) -> 1..Len(MetricCatalog)] :
        \A i, j \in 1..Len(MetricCatalog) : q[i] = q[j] => i = j}

InitOrder ==
    /\ pc = "loop"
    /\ order \in Orders
    /\ outcomes \in {<<a, b, c, d>> : a \in FetchOutcomes(1), b \in FetchOutcomes(2),
                                      c \in FetchOutcomes(3), d \in FetchOutcomes(4)}
    /\ functionName = "myFunction"
    /\ clock = BaseNow
    /\ idx = 1
    /\ stat = EmptyMap
    /\ v = <<>>
    /\ err = NoErr
    /\ RequestedCount = 0
    /\ lastRequest = <<>>
    /\ logs = <<>>
    /\ ret = EmptyMap
    /\ retErr = NoErr
    /\ datapoints = <<>>
    /\ cause = NoErr
    /\ latestIdx = 0
    /\ arg = EmptyMap

\* One turn of the loop for the group order[idx], err == nil: the merge.
MergeInOrder ==
    /\ pc = "loop"
    /\ idx <= Len(order)
    /\ outcomes[order[idx]].err = NoErr
    /\ v' = outcomes[order[idx]].v
    /\ err' = NoErr
    /\ IF mergePanics(v', MetricCatalog[order[idx]])
       THEN pc' = "panic" /\ UNCHANGED <<stat, idx>>
       ELSE /\ stat' = mergeStatsFromDatapoint(stat, v'[1], MetricCatalog[order[idx]])
            /\ idx' = idx + 1
            /\ pc' = "loop"
    /\ UNCHANGED <<functionName, clock, RequestedCount, lastRequest, logs, ret,
                   retErr, datapoints, cause, latestIdx, arg, outcomes, order>>

\* One turn of the loop for the group order[idx], err != nil: the log line.
LogInOrder ==
    /\ pc = "loop"
    /\ idx <= Len(order)
    /\ outcomes[order[idx]].err # NoErr
    /\ v' = outcomes[order[idx]].v
    /\ err' = outcomes[order[idx]].err
    /\ logs' = Append(logs, <<MetricCatalog[order[idx]].CloudWatchName, err'>>)
    /\ idx' = idx + 1
    /\ pc' = "loop"
    /\ UNCHANGED <<functionName, clock, stat, RequestedCount, lastRequest, ret,
                   retErr, datapoints, cause, latestIdx, arg, outcomes, order>>

\* After the last group: return p.TransformMetrics(stat), nil
ReturnInOrder ==
    /\ pc = "loop"
    /\ idx > Len(order)
    /\ ret' = TransformMetrics(stat)
    /\ stat' = ret'
    /\ retErr' = NoErr
    /\ pc' = "done"
    /\ UNCHANGED <<functionName, clock, idx, v, err, RequestedCount,
                   lastRequest, logs, datapoints, cause, latestIdx, arg,
                   outcomes, order>>

NextOrder == MergeInOrder \/ LogInOrder \/ ReturnInOrder

SpecOrder == InitOrder /\ [][NextOrder]_vars

\* The stat map after the loop has taken the groups ord[i], ord[i+1], ...
RECURSIVE statAfterLoop(_, _, _, _)
statAfterLoop(m, outs, ord, i) ==
    IF i > Len(ord) THEN m
    ELSE statAfterLoop(IF outs[ord[i]].err = NoErr
                       THEN mergeStatsFromDatapoint(m, outs[ord[i]].v[1], MetricCatalog[ord[i]])
                       ELSE m,
                       outs, ord, i + 1)

\* The record FetchMetrics returns for the given outcomes: the groups in
\* catalog order, then TransformMetrics.
FetchMetricsRecord(outs) ==
    TransformMetrics(statAfterLoop(EmptyMap, outs, [i \in 1..Len(MetricCatalog) |-> i], 1))

----------------------------------------------------------------------------
(* Properties *)

SeqRange(q) == {q[i] : i \in 1..Len(q)}

\* The metric names the graph definition declares.
GraphMetricNames ==
    SeqRange(GraphDefinition.invocations) \cup SeqRange(GraphDefinition.duration)

\* The output keys of the group at position g of the catalog.
OutputNames(g) ==
    {MetricCatalog[g].Metrics[i].MackerelName : i \in 1..Len(MetricCatalog[g].Metrics)}

\* The groups whose fetch failed in this cycle: those that were logged.
FailedGroups ==
    {g \in 1..Len(MetricCatalog) :
        \E i \in 1..Len(logs) : logs[i][1] = MetricCatalog[g].CloudWatchName}

\* C1: when the store answers with datapoints, the returned datapoint is the
\* one at the highest position among those with the maximum timestamp: no
\* candidate is later, and every candidate after it is strictly earlier.
C1_LatestLastWins ==
    (pc = "returned" /\ cause = NoErr /\ Len(datapoints) > 0) =>
        /\ latestIdx \in 1..Len(datapoints)
        /\ v = <<datapoints[latestIdx]>>
        /\ \A j \in 1..Len(datapoints) :
              /\ datapoints[j].Timestamp <= datapoints[latestIdx].Timestamp
              /\ j > latestIdx =>
                    datapoints[j].Timestamp < datapoints[latestIdx].Timestamp

\* C1 witness: three candidates, the first two tied on the maximum
\* timestamp, and the second one returned.
C1_Witness ==
    /\ pc = "returned"
    /\ Len(datapoints) = 3
    /\ datapoints[1].Timestamp = datapoints[2].Timestamp
    /\ datapoints[3].Timestamp < datapoints[2].Timestamp
    /\ datapoints[1] # datapoints[2]
    /\ latestIdx = 2
    /\ v = <<datapoints[2]>>

\* C2: when the total key is in the map handed to TransformMetrics, the
\* result holds invocations_success = total - error if the error count is
\* there, and = total if it is not.
C2_SuccessComputed ==
    (pc = "transformed" /\ TotalKey \in DOMAIN arg) =>
        /\ SuccessKey \in DOMAIN ret
        /\ (ErrorKey \in DOMAIN arg) => ret[SuccessKey] = arg[TotalKey] - arg[ErrorKey]
        /\ (ErrorKey \notin DOMAIN arg) => ret[SuccessKey] = arg[TotalKey]

\* C2 witness: total 2 and error 1 give success 1.
C2_Witness ==
    /\ pc = "transformed"
    /\ TotalKey \in DOMAIN arg /\ arg[TotalKey] = 2
    /\ ErrorKey \in DOMAIN arg /\ arg[ErrorKey] = 1
    /\ ret[SuccessKey] = 1

\* C3: the map TransformMetrics returns never holds the total key.
C3_TotalRemoved ==
    pc = "transformed" => TotalKey \notin DOMAIN ret

\* C3 witness: a map with the total key and no error count was transformed.
C3_Witness ==
    /\ pc = "transformed"
    /\ TotalKey \in DOMAIN arg
    /\ ErrorKey \notin DOMAIN arg
    /\ TotalKey \notin DOMAIN ret

\* C4: TransformMetrics returns its input when the total key is absent, and
\* in every case each key other than the total and invocations_success
\* keeps its presence and its value.
C4_TransformFrame ==
    pc = "transformed" =>
        /\ (TotalKey \notin DOMAIN arg) => ret = arg
        /\ \A k \in StatKeys \ {TotalKey, SuccessKey} :
              /\ (k \in DOMAIN ret) <=> (k \in DOMAIN arg)
              /\ (k \in DOMAIN arg) => ret[k] = arg[k]
        /\ DOMAIN ret \subseteq StatKeys

\* C4 witness: a map with the total, the error count and a duration was
\* transformed, and the error count and the duration are as they were.
C4_Witness ==
    /\ pc = "transformed"
    /\ {TotalKey, ErrorKey, "duration_avg"} \subseteq DOMAIN arg
    /\ ret[ErrorKey] = arg[ErrorKey]
    /\ ret["duration_avg"] = arg["duration_avg"]
    /\ "duration_max" \notin DOMAIN ret

\* C5: at the end of a cycle no error is returned, every group was either
\* merged or logged, a failed group left none of its output keys (nor, for
\* Invocations, the success derived from it) in the record, and every group
\* that did not fail left all of its keys.
C5_FailuresAreLocal ==
    pc = "done" =>
        /\ retErr = NoErr
        /\ idx = Len(MetricCatalog) + 1
        /\ Len(logs) = Cardinality(FailedGroups)
        /\ \A g \in FailedGroups :
              /\ OutputNames(g) \cap DOMAIN ret = {}
              /\ g = 1 => SuccessKey \notin DOMAIN ret
        /\ \A g \in (1..Len(MetricCatalog)) \ FailedGroups :
              IF g = 1 THEN SuccessKey \in DOMAIN ret
              ELSE OutputNames(g) \subseteq DOMAIN ret

\* C5 witness: Errors answered no datapoints, Throttles failed upstream,
\* and the cycle still returned the success count and the durations.
C5_Witness ==
    /\ pc = "done"
    /\ logs = << <<"Errors", NoDataError>>, <<"Throttles", "Wrong Statistics">> >>
    /\ DOMAIN ret = {SuccessKey, "duration_avg", "duration_max", "duration_min"}
    /\ retErr = NoErr

\* C6: every key of the record a cycle returns is a metric name of the
\* graph definition, and the total key is not among them.
C6_OnlyGraphMetrics ==
    pc = "done" =>
        /\ DOMAIN ret \subseteq GraphMetricNames
        /\ TotalKey \notin DOMAIN ret

\* C6 witness: a cycle in which every group answered returned all six.
C6_Witness ==
    /\ pc = "done"
    /\ logs = <<>>
    /\ DOMAIN ret = GraphMetricNames

\* C7: the store has received exactly one request for each call of
\* getLastPointFromCloudWatch made so far, whatever the calls returned, and
\* four when the cycle ends.
C7_OneRequestPerCall ==
    /\ RequestedCount = IF pc \in {"fetched", "panic"} THEN idx ELSE idx - 1
    /\ pc = "done" => RequestedCount = 4

\* C7 witness: a cycle with a NoData answer, an upstream error and two
\* answers with datapoints ended with four requests.
C7_Witness ==
    /\ pc = "done"
    /\ RequestedCount = 4
    /\ \E i \in 1..Len(logs) : logs[i][2] = NoDataError
    /\ \E i \in 1..Len(logs) : logs[i][2] \in UpstreamErrors
    /\ Len(logs) = 2

C9_NoDataVersusUpstream ==
    pc = "returned" =>
        /\ (err = NoDataError) <=> (cause = NoErr /\ Len(datapoints) = 0)
        /\ cause # NoErr => (err = cause /\ err # "fetched no datapoints")
        /\ (cause = NoErr /\ Len(datapoints) > 0) => err = NoErr

\* C9 witness: the store answered zero datapoints and the call returned
\* the no-datapoints error and no datapoint.
C9_Witness ==
    /\ pc = "returned"
    /\ cause = NoErr
    /\ datapoints = <<>>
    /\ err = "fetched no datapoints"
    /\ v = <<>>

\* The field of a datapoint an output key is fed from.
FieldFor(name, dp) ==
    CASE name = "duration_avg" -> dp.Average
      [] name = "duration_max" -> dp.Maximum
      [] name = "duration_min" -> dp.Minimum
      [] OTHER -> dp.Sum

\* C10: after the merge of a datapoint of a group every output key of the
\* group holds the matching field of the datapoint, whatever it held before,
\* and every other key is as it was; a second merge of the same group and
\* datapoint leaves the map as the first one left it.
C10_MergeOverwrites ==
    /\ pc = "merged" =>
          /\ DOMAIN stat = DOMAIN arg \cup OutputNames(idx)
          /\ \A k \in OutputNames(idx) : stat[k] = FieldFor(k, v[1])
          /\ \A k \in DOMAIN arg \ OutputNames(idx) : stat[k] = arg[k]
    /\ pc = "mergedTwice" => stat = ret

\* C10 witness: Duration merged twice into a map that held another average
\* and the total; the average is the datapoint's and the total is kept.
C10_Witness ==
    /\ pc = "mergedTwice"
    /\ idx = 4
    /\ {"duration_avg", TotalKey} \subseteq DOMAIN arg
    /\ arg["duration_avg"] # v[1].Average
    /\ stat["duration_avg"] = v[1].Average
    /\ stat[TotalKey] = arg[TotalKey]

\* C11: with an empty function name the request carries no dimension, so
\* that the store aggregates over every function of the region; with a
\* function name it carries the one dimension FunctionName = that name.
C11_EmptyNameUnscoped ==
    pc = "returned" =>
        /\ functionName = "" => Len(lastRequest[1].Dimensions) = 0
        /\ functionName # "" =>
              lastRequest[1].Dimensions =
                 << [Name |-> "FunctionName", Value |-> functionName] >>

\* C13: the merge of a cycle never dereferences nil: on the no-error path
\* every metric of the group reads a statistic the request named, and that
\* field of the returned datapoint is populated.
C13_MergeNeverFails ==
    /\ pc # "panic"
    /\ (pc = "fetched" /\ err = NoErr) =>
          /\ v # <<>>
          /\ \A k \in OutputNames(idx) : FieldFor(k, v[1]) # NilF
          /\ \A i \in 1..Len(MetricCatalog[idx].Metrics) :
                MetricCatalog[idx].Metrics[i].Type \in SeqRange(lastRequest[1].Statistics)

\* C13 witness: Duration was merged from a datapoint whose Sum is nil, and
\* the loop went on to its end.
C13_Witness ==
    /\ pc = "loop"
    /\ idx = Len(MetricCatalog) + 1
    /\ err = NoErr
    /\ v # <<>>
    /\ v[1].Sum = NilF
    /\ stat["duration_avg"] = v[1].Average
    /\ stat["duration_max"] = v[1].Maximum
    /\ stat["duration_min"] = v[1].Minimum

\* C14: when the store answers with datapoints the call returns one of them
\* and no error, and in no case does it return neither a datapoint nor an
\* error.
C14_NeverNilNil ==
    pc = "returned" =>
        /\ (cause = NoErr /\ Len(datapoints) > 0) =>
              /\ err = NoErr
              /\ Len(v) = 1
              /\ v[1] \in SeqRange(datapoints)
        /\ ~(v = <<>> /\ err = NoErr)
        /\ \A j \in 1..Len(datapoints) : ZeroTime <= datapoints[j].Timestamp

\* C14 witness: two candidates, the first the later one, and the first one
\* returned without error.
C14_Witness ==
    /\ pc = "returned"
    /\ Len(datapoints) = 2
    /\ datapoints[2].Timestamp < datapoints[1].Timestamp
    /\ v = <<datapoints[1]>>
    /\ err = NoErr

\* C12: whatever the order in which the groups are fetched and merged, the
\* record returned after the single TransformMetrics is the record the
\* catalog order gives for the same outcomes of the groups.
C12_OrderIndependent ==
    pc = "done" => ret = FetchMetricsRecord(outcomes)

\* C12 witness: the groups taken in reverse order, every fetch answered,
\* Invocations and Errors with different sums; the record holds all six
\* metrics and the success count is total - error.
C12_Witness ==
    /\ pc = "done"
    /\ order = <<4, 3, 2, 1>>
    /\ \A g \in 1..4 : outcomes[g].err = NoErr
    /\ outcomes[1].v[1].Sum # outcomes[2].v[1].Sum
    /\ outcomes[2].v[1].Sum # outcomes[3].v[1].Sum
    /\ DOMAIN ret = GraphMetricNames
    /\ ret[SuccessKey] = outcomes[1].v[1].Sum - outcomes[2].v[1].Sum

====
